---- MODULE Spec2Model ----
(***************************************************************************)
(* The two GRT example drivers as one sequential state machine:            *)
(*   ANBCExample.cpp                       (driver = "anbc")               *)
(*   MultidimensionalRegressionExample.cpp (driver = "regression")         *)
(* Each statement of main() that calls into the toolkit or into the        *)
(* results stream is one action; the `if( !ok ){ ...; return              *)
(* EXIT_FAILURE; }` that follows a call is part of that call's action.     *)
(* The toolkit itself (datasets, ANBC, the pipeline, model files) is not   *)
(* part of the sources: a call's success flag is a free boolean, and what  *)
(* a successful call does is modelled from the specification.              *)
(***************************************************************************)
EXTENDS Integers, Sequences, FiniteSets, TLC

VARIABLES
    driver,              \* which main() is running
    pc,                  \* the statement main() is at
    exitStatus,          \* "none" until main returns
    calls,               \* every call made so far: [op, ok], in order
    fs,                  \* the model files on disk: name -> [exists, m]
    config,              \* the ANBC / pipeline configuration set by the setters
    model,               \* the fitted parameters held by anbc / pipeline
    trainingData,        \* ANBC: ClassificationData trainingData (sample ids)
    testData,            \* ANBC: ClassificationData testData (sample ids)
    regTrainingData,     \* regression: RegressionData trainingData
    regTestData,         \* regression: RegressionData testData
    i,                   \* the loop index (UINT i)
    accuracy,            \* ANBC: double accuracy (a count until line 119)
    accuracyOut,         \* ANBC: the value printed at line 119
    predictedClassLabel, \* ANBC: UINT predictedClassLabel
    outputVector,        \* regression: vector<double> outputVector
    file,                \* regression: fstream file and what it put on disk
    loadedData,          \* history: the samples the ANBC dataset file held
    trainedOn,           \* history: the samples handed to anbc.train
    trainedModel,        \* history: the parameters train fitted
    visited              \* history: the loop indices handed to predict

vars == << driver, pc, exitStatus, calls, fs, config, model, trainingData,
           testData, regTrainingData, regTestData, i, accuracy, accuracyOut,
           predictedClassLabel, outputVector, file, loadedData, trainedOn,
           trainedModel, visited >>

----------------------------------------------------------------------------
(* Bounds of the model *)

MaxSamples == 6      \* ANBC: samples in the dataset file, 0..MaxSamples
MaxRegSamples == 2   \* regression: samples per dataset, 0..MaxRegSamples
MaxDim == 2          \* regression: input / target dimensions, 1..MaxDim
MaxClass == 2        \* ANBC: class labels 1..MaxClass (0 is the null label)

(* Program constants *)

NullRejectionCoeff == 10   \* anbc.setNullRejectionCoeff( 10 )
TrainingPercent == 80      \* trainingData.partition( 80 )

AnbcSaveFile == "ANBCModel.txt"
PipelineSaveFile == "Pipeline"
PipelineLoadFile == "Pipeline"
ModelFiles == {"ANBCModel.txt", "Pipeline"}

----------------------------------------------------------------------------
(* Values *)

RECURSIVE SeqOf(_)
\* The elements of a finite set of numbers as an increasing sequence.
SeqOf(S) ==
    IF S = {} THEN << >>
    ELSE LET m == CHOOSE x \in S : \A y \in S : x <= y
         IN  << m >> \o SeqOf(S \ {m})

Range(s) == { s[k] : k \in 1..Len(s) }

RECURSIVE SumSeq(_)
SumSeq(s) == IF s = << >> THEN 0 ELSE Head(s) + SumSeq(Tail(s))

Untrained == [trained |-> FALSE, w |-> 0, outDim |-> 0]
\* A model file left behind by an earlier run of some other training.
StaleModel == [trained |-> TRUE, w |-> 99, outDim |-> 1]
NoFile == [exists |-> FALSE, m |-> Untrained]

\* testData[k].getClassLabel() and testData[k].getSample() of sample id s
ClassLabelOf(s) == ((s - 1) % MaxClass) + 1
SampleOf(s) == s

\* testData[k].getTargetVector() of the regression test set, 0-based k
TargetVectorOf(d, k) == [j \in 1..d.tgtDim |-> 100 + 10 * k + j]
\* testData[k].getInputVector()
InputVectorOf(d, k) == [j \in 1..d.inDim |-> 10 * k + j]

----------------------------------------------------------------------------
(* The toolkit, as the specification describes it *)

\* ANBC::train on a dataset: the fitted parameters are a function of the data.
Fit(samples) == [trained |-> TRUE, w |-> SumSeq(samples), outDim |-> 0]

\* GestureRecognitionPipeline::train on regression data: one regressor per
\* target dimension of the training data.
RegFit(d) == [trained |-> TRUE, w |-> d.n, outDim |-> d.tgtDim]

\* ANBC::predict followed by getPredictedClassLabel: a function of the fitted
\* parameters and the input; 0 is the null-rejection label.
PredictClassLabelOf(m, x) == (m.w + x) % (MaxClass + 1)

\* pipeline.predict followed by getRegressionData.
RegressionDataOf(m, x) == [j \in 1..m.outDim |-> m.w + x[1] + j]

\* saveModelToFile / savePipelineToFile: a successful save leaves the fitted
\* parameters in the named file, a failed one leaves the file as it was.
SaveToFile(f, name, m, ok) ==
    IF ok THEN [f EXCEPT ![name] = [exists |-> TRUE, m |-> m]] ELSE f

\* loadModelFromFile / loadPipelineFromFile: succeeds only on an existing
\* model file (and may fail on one), and then holds what the file holds.
LoadOutcomes(f, name) == IF f[name].exists THEN BOOLEAN ELSE {FALSE}
LoadFromFile(f, name, m, ok) == IF ok THEN f[name].m ELSE m

\* ClassificationData::partition( pct ): pct percent of the samples stay in the
\* dataset, the others are moved to the returned dataset.
PartitionSize(n, pct) == (n * pct) \div 100
Partitions(data, pct) ==
    { [train |-> SeqOf(T), test |-> SeqOf(Range(data) \ T)] :
        T \in { U \in SUBSET Range(data) :
                  Cardinality(U) = PartitionSize(Len(data), pct) } }

RegDatasets ==
    [n : 0..MaxRegSamples, inDim : 1..MaxDim, tgtDim : 1..MaxDim]
EmptyRegData == [n |-> 0, inDim |-> 0, tgtDim |-> 0]

----------------------------------------------------------------------------
(* Pieces of the drivers *)

Call(op, ok) == Append(calls, [op |-> op, ok |-> ok])

\* `if( !ok ){ cout << ...; return EXIT_FAILURE; }` after a call: first a
\* variant that goes on regardless, then the code.
FailFastIgnored(ok, next) == next
FailFast(ok, next) == IF ok THEN next ELSE "done"

\* The status main returns with when a checked call sends it to "done".
StatusAfter(next) == IF next = "done" THEN "EXIT_FAILURE" ELSE "none"

\* `i < testData.getNumSamples()`: first an off-by-one variant, then the code.
LoopCondInclusive(k, n) == k <= n
LoopCond(k, n) == k < n

\* anbc.train( trainingData ), the dataset handed to train: first a variant
\* that trains on everything that was loaded, then the code.
AnbcTrainArgWhole == loadedData
AnbcTrainArg == trainingData

\* anbc.loadModelFromFile("ANBCModel.txt"), the file read back: first a
\* variant that reads another model file, then the code.
AnbcLoadFileOther == "Pipeline"
AnbcLoadFile == "ANBCModel.txt"

\* testData[k] of the ANBC test set (0-based k); 0 stands for whatever lies
\* beyond the last sample.
TestSampleAt(k) == IF k + 1 \in 1..Len(testData) THEN testData[k + 1] ELSE 0

\* accuracy / double(n) * 100.0 in IEEE double arithmetic, as an exact ratio
\* or as the special value the division yields.
Divide(a, b) ==
    IF b # 0 THEN [kind |-> "number", num |-> a, den |-> b]
    ELSE IF a = 0 THEN [kind |-> "nan", num |-> 0, den |-> 0]
    ELSE [kind |-> "inf", num |-> a, den |-> 0]
Times(r, c) == [r EXCEPT !.num = @ * c]
Unset == [kind |-> "unset", num |-> 0, den |-> 1]

\* fstream: open, operator<< of one whole line, close, and the destructor that
\* runs when main returns while `file` is in scope. A stream that failed to
\* open, or is closed, swallows what is written to it.
NewStream == [state |-> "unopened", lines |-> << >>, closedBy |-> "none"]
StreamOpen(f, ok) ==
    IF ok THEN [f EXCEPT !.state = "open", !.lines = << >>]
    ELSE [f EXCEPT !.state = "failed"]
StreamWriteLine(f, line) ==
    IF f.state = "open" THEN [f EXCEPT !.lines = Append(@, line)] ELSE f
StreamClose(f) ==
    IF f.state = "open" THEN [f EXCEPT !.state = "closed", !.closedBy = "close"]
    ELSE f
FileDestructorLeak(f) == f
FileDestructor(f) ==
    IF f.state = "open"
    THEN [f EXCEPT !.state = "closed", !.closedBy = "destructor"]
    ELSE f

\* The conditions of the two dimension checks, as written.
InputDimensionsDiffer == regTrainingData.inDim # regTestData.inDim
TargetDimensionsDiffer == regTestData.tgtDim # regTestData.tgtDim

----------------------------------------------------------------------------
(* Initial state: main() has not started; the disk may hold model files of *)
(* earlier runs.                                                           *)

Init ==
    /\ driver \in {"anbc", "regression"}
    /\ pc = IF driver = "anbc" THEN "a_setNullRejectionCoeff" ELSE "r_loadTraining"
    /\ exitStatus = "none"
    /\ calls = << >>
    /\ fs \in [ModelFiles -> {NoFile, [exists |-> TRUE, m |-> StaleModel]}]
    /\ config = [nullRejectionCoeff |-> 0, scaling |-> FALSE,
                 nullRejection |-> FALSE, regressifier |-> FALSE]
    /\ model = Untrained
    /\ trainingData = << >>
    /\ testData = << >>
    /\ regTrainingData = EmptyRegData
    /\ regTestData = EmptyRegData
    /\ i = 0
    /\ accuracy = 0
    /\ accuracyOut = Unset
    /\ predictedClassLabel = 0
    /\ outputVector = << >>
    /\ file = NewStream
    /\ loadedData = << >>
    /\ trainedOn = << >>
    /\ trainedModel = Untrained
    /\ visited = << >>

----------------------------------------------------------------------------
(* ANBCExample.cpp *)

anbcData == << trainingData, testData, loadedData >>
regState == << regTrainingData, regTestData, outputVector, file >>
anbcLoop == << i, accuracy, accuracyOut, predictedClassLabel, visited >>

\* anbc.setNullRejectionCoeff( 10 ); the result is not looked at
A_SetNullRejectionCoeff ==
    /\ pc = "a_setNullRejectionCoeff"
    /\ \E ok \in BOOLEAN :
        /\ calls' = Call("setNullRejectionCoeff", ok)
        /\ config' = IF ok THEN [config EXCEPT !.nullRejectionCoeff = NullRejectionCoeff]
                     ELSE config
    /\ pc' = "a_enableScaling"
    /\ UNCHANGED << driver, exitStatus, fs, model, anbcData, regState, anbcLoop,
                    trainedOn, trainedModel >>

\* anbc.enableScaling( true ); the result is not looked at
A_EnableScaling ==
    /\ pc = "a_enableScaling"
    /\ \E ok \in BOOLEAN :
        /\ calls' = Call("enableScaling", ok)
        /\ config' = IF ok THEN [config EXCEPT !.scaling = TRUE] ELSE config
    /\ pc' = "a_enableNullRejection"
    /\ UNCHANGED << driver, exitStatus, fs, model, anbcData, regState, anbcLoop,
                    trainedOn, trainedModel >>

\* anbc.enableNullRejection( true ); the result is not looked at
A_EnableNullRejection ==
    /\ pc = "a_enableNullRejection"
    /\ \E ok \in BOOLEAN :
        /\ calls' = Call("enableNullRejection", ok)
        /\ config' = IF ok THEN [config EXCEPT !.nullRejection = TRUE] ELSE config
    /\ pc' = "a_loadDataset"
    /\ UNCHANGED << driver, exitStatus, fs, model, anbcData, regState, anbcLoop,
                    trainedOn, trainedModel >>

\* if( !trainingData.loadDatasetFromFile("ANBCTrainingData.txt") ) return EXIT_FAILURE
A_LoadDataset ==
    /\ pc = "a_loadDataset"
    /\ \E ok \in BOOLEAN, n \in 0..MaxSamples :
        /\ calls' = Call("loadDatasetFromFile", ok)
        /\ trainingData' = IF ok THEN SeqOf(1..n) ELSE trainingData
        /\ loadedData' = trainingData'
        /\ pc' = FailFast(ok, "a_partition")
    /\ exitStatus' = StatusAfter(pc')
    /\ UNCHANGED << driver, fs, config, model, testData, regState, anbcLoop,
                    trainedOn, trainedModel >>

\* ClassificationData testData = trainingData.partition( 80 )
A_Partition ==
    /\ pc = "a_partition"
    /\ \E p \in Partitions(trainingData, TrainingPercent) :
        /\ trainingData' = p.train
        /\ testData' = p.test
    /\ calls' = Call("partition", TRUE)
    /\ pc' = "a_train"
    /\ UNCHANGED << driver, exitStatus, fs, config, model, loadedData, regState,
                    anbcLoop, trainedOn, trainedModel >>

\* bool trainSuccess = anbc.train( trainingData ); if( !trainSuccess ) return EXIT_FAILURE
A_Train ==
    /\ pc = "a_train"
    /\ \E ok \in BOOLEAN :
        /\ calls' = Call("train", ok)
        /\ model' = IF ok THEN Fit(AnbcTrainArg) ELSE Untrained
        /\ pc' = FailFast(ok, "a_saveModel")
    /\ trainedModel' = model'
    /\ trainedOn' = AnbcTrainArg
    /\ exitStatus' = StatusAfter(pc')
    /\ UNCHANGED << driver, fs, config, anbcData, regState, anbcLoop >>

\* bool saveSuccess = anbc.saveModelToFile("ANBCModel.txt"); if( !saveSuccess ) return EXIT_FAILURE
A_SaveModel ==
    /\ pc = "a_saveModel"
    /\ \E ok \in BOOLEAN :
        /\ calls' = Call("saveModelToFile", ok)
        /\ fs' = SaveToFile(fs, AnbcSaveFile, model, ok)
        /\ pc' = FailFast(ok, "a_loadModel")
    /\ exitStatus' = StatusAfter(pc')
    /\ UNCHANGED << driver, config, model, anbcData, regState, anbcLoop,
                    trainedOn, trainedModel >>

\* bool loadSuccess = anbc.loadModelFromFile("ANBCModel.txt"); if( !loadSuccess ) return EXIT_FAILURE
A_LoadModel ==
    /\ pc = "a_loadModel"
    /\ \E ok \in LoadOutcomes(fs, AnbcLoadFile) :
        /\ calls' = Call("loadModelFromFile", ok)
        /\ model' = LoadFromFile(fs, AnbcLoadFile, model, ok)
        /\ pc' = FailFast(ok, "a_loop")
    /\ exitStatus' = StatusAfter(pc')
    /\ UNCHANGED << driver, fs, config, anbcData, regState, anbcLoop,
                    trainedOn, trainedModel >>

\* for(UINT i=0; i<testData.getNumSamples(); i++)
A_Loop ==
    /\ pc = "a_loop"
    /\ pc' = IF LoopCond(i, Len(testData)) THEN "a_predict" ELSE "a_accuracy"
    /\ UNCHANGED << driver, exitStatus, calls, fs, config, model, anbcData,
                    regState, anbcLoop, trainedOn, trainedModel >>

\* bool predictSuccess = anbc.predict( inputVector ); if( !predictSuccess ) return EXIT_FAILURE
A_Predict ==
    /\ pc = "a_predict"
    /\ \E ok \in BOOLEAN :
        /\ calls' = Call("predict", ok)
        /\ pc' = FailFast(ok, "a_getPredictedClassLabel")
    /\ visited' = Append(visited, i)
    /\ exitStatus' = StatusAfter(pc')
    /\ UNCHANGED << driver, fs, config, model, anbcData, regState, i, accuracy,
                    accuracyOut, predictedClassLabel, trainedOn, trainedModel >>

\* UINT predictedClassLabel = anbc.getPredictedClassLabel();
\* if( classLabel == predictedClassLabel ) accuracy++;   and the loop's i++
A_GetPredictedClassLabel ==
    /\ pc = "a_getPredictedClassLabel"
    /\ calls' = Call("getPredictedClassLabel", TRUE)
    /\ predictedClassLabel' = PredictClassLabelOf(model, SampleOf(TestSampleAt(i)))
    /\ accuracy' = IF ClassLabelOf(TestSampleAt(i)) = predictedClassLabel'
                   THEN accuracy + 1 ELSE accuracy
    /\ i' = i + 1
    /\ pc' = "a_loop"
    /\ UNCHANGED << driver, exitStatus, fs, config, model, anbcData, regState,
                    accuracyOut, visited, trainedOn, trainedModel >>

\* cout << accuracy/double(testData.getNumSamples())*100.0; return EXIT_SUCCESS
A_Accuracy ==
    /\ pc = "a_accuracy"
    /\ accuracyOut' = Times(Divide(accuracy, Len(testData)), 100)
    /\ pc' = "done"
    /\ exitStatus' = "EXIT_SUCCESS"
    /\ UNCHANGED << driver, calls, fs, config, model, anbcData, regState, i,
                    accuracy, predictedClassLabel, visited, trainedOn, trainedModel >>

----------------------------------------------------------------------------
(* MultidimensionalRegressionExample.cpp *)

regData == << regTrainingData, regTestData >>
anbcState == << anbcData, accuracy, accuracyOut, predictedClassLabel, trainedOn >>

\* if( !trainingData.loadDatasetFromFile("MultidimensionalRegressionTrainingData.txt") ) return EXIT_FAILURE
R_LoadTraining ==
    /\ pc = "r_loadTraining"
    /\ \E ok \in BOOLEAN, d \in RegDatasets :
        /\ calls' = Call("loadDatasetFromFile", ok)
        /\ regTrainingData' = IF ok THEN d ELSE regTrainingData
        /\ pc' = FailFast(ok, "r_loadTest")
    /\ exitStatus' = StatusAfter(pc')
    /\ UNCHANGED << driver, fs, config, model, regTestData, outputVector, file,
                    i, visited, anbcState, trainedModel >>

\* if( !testData.loadDatasetFromFile("MultidimensionalRegressionTestData.txt") ) return EXIT_FAILURE
R_LoadTest ==
    /\ pc = "r_loadTest"
    /\ \E ok \in BOOLEAN, d \in RegDatasets :
        /\ calls' = Call("loadDatasetFromFile", ok)
        /\ regTestData' = IF ok THEN d ELSE regTestData
        /\ pc' = FailFast(ok, "r_checkInputDimensions")
    /\ exitStatus' = StatusAfter(pc')
    /\ UNCHANGED << driver, fs, config, model, regTrainingData, outputVector,
                    file, i, visited, anbcState, trainedModel >>

\* if( trainingData.getNumInputDimensions() != testData.getNumInputDimensions() ) return EXIT_FAILURE
R_CheckInputDimensions ==
    /\ pc = "r_checkInputDimensions"
    /\ pc' = IF InputDimensionsDiffer THEN "done" ELSE "r_checkTargetDimensions"
    /\ exitStatus' = StatusAfter(pc')
    /\ UNCHANGED << driver, calls, fs, config, model, regState, i, visited,
                    anbcState, trainedModel >>

\* if( testData.getNumTargetDimensions() != testData.getNumTargetDimensions() ) return EXIT_FAILURE
R_CheckTargetDimensions ==
    /\ pc = "r_checkTargetDimensions"
    /\ pc' = IF TargetDimensionsDiffer THEN "done" ELSE "r_setRegressifier"
    /\ exitStatus' = StatusAfter(pc')
    /\ UNCHANGED << driver, calls, fs, config, model, regState, i, visited,
                    anbcState, trainedModel >>

\* pipeline.setRegressifier( MultidimensionalRegression( LinearRegression(), true ) );
\* the result is not looked at
R_SetRegressifier ==
    /\ pc = "r_setRegressifier"
    /\ \E ok \in BOOLEAN :
        /\ calls' = Call("setRegressifier", ok)
        /\ config' = IF ok THEN [config EXCEPT !.regressifier = TRUE] ELSE config
    /\ pc' = "r_train"
    /\ UNCHANGED << driver, exitStatus, fs, model, regState, i, visited,
                    anbcState, trainedModel >>

\* if( !pipeline.train( trainingData ) ) return EXIT_FAILURE
R_Train ==
    /\ pc = "r_train"
    /\ \E ok \in BOOLEAN :
        /\ calls' = Call("train", ok)
        /\ model' = IF ok THEN RegFit(regTrainingData) ELSE Untrained
        /\ pc' = FailFast(ok, "r_savePipeline")
    /\ trainedModel' = model'
    /\ exitStatus' = StatusAfter(pc')
    /\ UNCHANGED << driver, fs, config, regState, i, visited, anbcState >>

\* if( !pipeline.savePipelineToFile( "Pipeline" ) ) return EXIT_FAILURE
R_SavePipeline ==
    /\ pc = "r_savePipeline"
    /\ \E ok \in BOOLEAN :
        /\ calls' = Call("savePipelineToFile", ok)
        /\ fs' = SaveToFile(fs, PipelineSaveFile, model, ok)
        /\ pc' = FailFast(ok, "r_loadPipeline")
    /\ exitStatus' = StatusAfter(pc')
    /\ UNCHANGED << driver, config, model, regState, i, visited, anbcState,
                    trainedModel >>

\* if( !pipeline.loadPipelineFromFile( "Pipeline" ) ) return EXIT_FAILURE
R_LoadPipeline ==
    /\ pc = "r_loadPipeline"
    /\ \E ok \in LoadOutcomes(fs, PipelineLoadFile) :
        /\ calls' = Call("loadPipelineFromFile", ok)
        /\ model' = LoadFromFile(fs, PipelineLoadFile, model, ok)
        /\ pc' = FailFast(ok, "r_test")
    /\ exitStatus' = StatusAfter(pc')
    /\ UNCHANGED << driver, fs, config, regState, i, visited, anbcState,
                    trainedModel >>

\* if( !pipeline.test( testData ) ) return EXIT_FAILURE
R_Test ==
    /\ pc = "r_test"
    /\ \E ok \in BOOLEAN :
        /\ calls' = Call("test", ok)
        /\ pc' = FailFast(ok, "r_getTestRMSError")
    /\ exitStatus' = StatusAfter(pc')
    /\ UNCHANGED << driver, fs, config, model, regState, i, visited, anbcState,
                    trainedModel >>

\* cout << "Test complete. Test RMS error: " << pipeline.getTestRMSError() << endl
R_GetTestRMSError ==
    /\ pc = "r_getTestRMSError"
    /\ calls' = Call("getTestRMSError", TRUE)
    /\ pc' = "r_open"
    /\ UNCHANGED << driver, exitStatus, fs, config, model, regState, i, visited,
                    anbcState, trainedModel >>

\* fstream file; file.open("MultidimensionalRegressionResultsData.txt", fstream::out);
\* whether the stream opened is not looked at
R_Open ==
    /\ pc = "r_open"
    /\ \E ok \in BOOLEAN :
        /\ calls' = Call("file.open", ok)
        /\ file' = StreamOpen(file, ok)
    /\ pc' = "r_loop"
    /\ UNCHANGED << driver, exitStatus, fs, config, model, regData, outputVector,
                    i, visited, anbcState, trainedModel >>

\* for(UINT i=0; i<testData.getNumSamples(); i++)
R_Loop ==
    /\ pc = "r_loop"
    /\ pc' = IF LoopCond(i, regTestData.n) THEN "r_predict" ELSE "r_close"
    /\ UNCHANGED << driver, exitStatus, calls, fs, config, model, regState, i,
                    visited, anbcState, trainedModel >>

\* if( !pipeline.predict( inputVector ) ) return EXIT_FAILURE;
\* the return leaves the scope of `file`
R_Predict ==
    /\ pc = "r_predict"
    /\ \E ok \in BOOLEAN :
        /\ calls' = Call("predict", ok)
        /\ pc' = FailFast(ok, "r_getRegressionData")
    /\ visited' = Append(visited, i)
    /\ exitStatus' = StatusAfter(pc')
    /\ file' = IF pc' = "done" THEN FileDestructor(file) ELSE file
    /\ UNCHANGED << driver, fs, config, model, regData, outputVector, i,
                    anbcState, trainedModel >>

\* vector< double > outputVector = pipeline.getRegressionData()
R_GetRegressionData ==
    /\ pc = "r_getRegressionData"
    /\ calls' = Call("getRegressionData", TRUE)
    /\ outputVector' = RegressionDataOf(model, InputVectorOf(regTestData, i))
    /\ pc' = "r_write"
    /\ UNCHANGED << driver, exitStatus, fs, config, model, regData, file, i,
                    visited, anbcState, trainedModel >>

\* file << outputVector[j] << "\t" ...; file << targetVector[j] << "\t" ...;
\* file << endl;   and the loop's i++
R_Write ==
    /\ pc = "r_write"
    /\ file' = StreamWriteLine(file, outputVector \o TargetVectorOf(regTestData, i))
    /\ i' = i + 1
    /\ pc' = "r_loop"
    /\ UNCHANGED << driver, exitStatus, calls, fs, config, model, regData,
                    outputVector, visited, anbcState, trainedModel >>

\* file.close()
R_Close ==
    /\ pc = "r_close"
    /\ calls' = Call("file.close", file.state = "open")
    /\ file' = StreamClose(file)
    /\ pc' = "r_return"
    /\ UNCHANGED << driver, exitStatus, fs, config, model, regData, outputVector,
                    i, visited, anbcState, trainedModel >>

\* return EXIT_SUCCESS; the return leaves the scope of `file`
R_Return ==
    /\ pc = "r_return"
    /\ file' = FileDestructor(file)
    /\ pc' = "done"
    /\ exitStatus' = "EXIT_SUCCESS"
    /\ UNCHANGED << driver, calls, fs, config, model, regData, outputVector, i,
                    visited, anbcState, trainedModel >>

----------------------------------------------------------------------------

Next ==
    \/ A_SetNullRejectionCoeff
    \/ A_EnableScaling
    \/ A_EnableNullRejection
    \/ A_LoadDataset
    \/ A_Partition
    \/ A_Train
    \/ A_SaveModel
    \/ A_LoadModel
    \/ A_Loop
    \/ A_Predict
    \/ A_GetPredictedClassLabel
    \/ A_Accuracy
    \/ R_LoadTraining
    \/ R_LoadTest
    \/ R_CheckInputDimensions
    \/ R_CheckTargetDimensions
    \/ R_SetRegressifier
    \/ R_Train
    \/ R_SavePipeline
    \/ R_LoadPipeline
    \/ R_Test
    \/ R_GetTestRMSError
    \/ R_Open
    \/ R_Loop
    \/ R_Predict
    \/ R_GetRegressionData
    \/ R_Write
    \/ R_Close
    \/ R_Return

Spec == Init /\ [][Next]_vars

\* main() is the only thread of control: a statement that can run does run.
FairSpec == Spec /\ WF_vars(Next)

----------------------------------------------------------------------------
(* Vocabulary of the properties *)

Terminated == pc = "done"
Succeeded == pc = "done" /\ exitStatus = "EXIT_SUCCESS"
Failed == pc = "done" /\ exitStatus = "EXIT_FAILURE"

Called(op) == \E k \in 1..Len(calls) : calls[k].op = op
CountOf(op, upto) == Cardinality({ k \in 1..upto : calls[k].op = op })
LastCall == calls[Len(calls)]

Setters ==
    {"setNullRejectionCoeff", "enableScaling", "enableNullRejection", "setRegressifier"}
SaveOps == {"saveModelToFile", "savePipelineToFile"}
LoadOps == {"loadModelFromFile", "loadPipelineFromFile"}
UseOps == {"predict", "test", "getTestRMSError"}
OutputAccessors == {"getPredictedClassLabel", "getRegressionData"}

\* the number of test samples of the running driver
NumTestSamples == IF driver = "anbc" THEN Len(testData) ELSE regTestData.n

\* line k (0-based) of the results file as the regression driver means it
ResultLine(k) ==
    RegressionDataOf(model, InputVectorOf(regTestData, k)) \o TargetVectorOf(regTestData, k)

BothDatasetsLoaded ==
    /\ driver = "regression"
    /\ Len(calls) >= 2
    /\ calls[1].ok
    /\ calls[2].ok

----------------------------------------------------------------------------
(* C1: in the regression driver, train and test datasets whose input       *)
(* dimensions differ, or whose target dimensions differ, are rejected: the *)
(* program ends with failure status and never invokes pipeline.train,      *)
(* pipeline.test or pipeline.predict.                                      *)
C1_MismatchRejected ==
    ( /\ BothDatasetsLoaded
      /\ \/ regTrainingData.inDim # regTestData.inDim
         \/ regTrainingData.tgtDim # regTestData.tgtDim )
    => /\ ~Called("train")
       /\ ~Called("test")
       /\ ~Called("predict")
       /\ Terminated => exitStatus = "EXIT_FAILURE"

(* C2: every call either driver makes is checked at once: a call that      *)
(* failed is the last call made, and the program has ended with failure    *)
(* status.                                                                 *)
C2_EveryCallChecked ==
    \A k \in 1..Len(calls) :
        ~calls[k].ok => /\ k = Len(calls)
                        /\ Failed

(* C3: in the ANBC driver the correct-prediction counter stays between 0   *)
(* and the number of samples processed, and for every test-set size n >= 0 *)
(* the accuracy computed after the loop is a well-defined number in [0,1]  *)
(* (the printed percentage in [0,100]).                                    *)
C3_AccuracyInUnitInterval ==
    driver = "anbc" =>
        /\ 0 <= accuracy
        /\ accuracy <= i
        /\ Succeeded => /\ accuracyOut.kind = "number"
                        /\ 0 <= accuracyOut.num
                        /\ accuracyOut.num <= 100 * accuracyOut.den

C6_ResultsFile ==
    (driver = "regression" /\ Succeeded) =>
        /\ Len(file.lines) = regTestData.n
        /\ \A k \in 1..Len(file.lines) : file.lines[k] = ResultLine(k - 1)

(* C7 as stated: on every path of the regression driver that opens the    *)
(* results file, file.close is reached before the program returns, and     *)
(* the file holds nothing unless it was opened.                            *)
C7_CloseReached ==
    (driver = "regression" /\ Terminated /\ file.state # "unopened"
        /\ file.state # "failed") =>
        /\ Called("file.close")
        /\ file.closedBy = "close"
        /\ file.state = "closed"

(* C7, amended: on every path of the regression driver that opens the     *)
(* results file the stream is closed when the program returns: by          *)
(* file.close() when the loop completes, by the stream's destructor when   *)
(* a failed predict returns from inside the loop (file.close is not        *)
(* reached there); lines reach the file only while the stream is open.     *)
C7_ClosedOnReturn ==
    [][ /\ pc' = "done" => file'.state # "open"
        /\ (pc' = "done" /\ file'.state = "closed") =>
              file'.closedBy = IF exitStatus' = "EXIT_SUCCESS" THEN "close"
                               ELSE "destructor"
        /\ file'.lines # file.lines =>
              (file.state = "open" /\ file'.state = "open") ]_vars

C7_Witness ==
    /\ driver = "regression"
    /\ Failed
    /\ file.closedBy = "destructor"
    /\ Len(file.lines) >= 1

(* C8: predict (and test, getTestRMSError) is invoked only after train,    *)
(* then save, then load were each invoked exactly once and succeeded; the  *)
(* configuration setters are invoked only before train; a predicted-output *)
(* accessor is read only directly after a predict that succeeded.          *)
C8_CallOrder ==
    \A k \in 1..Len(calls) :
        /\ calls[k].op \in UseOps =>
              \E t, s, l \in 1..(k - 1) :
                  /\ t < s
                  /\ s < l
                  /\ calls[t].op = "train" /\ calls[t].ok
                  /\ calls[s].op \in SaveOps /\ calls[s].ok
                  /\ calls[l].op \in LoadOps /\ calls[l].ok
                  /\ CountOf("train", k) = 1
                  /\ Cardinality({ j \in 1..k : calls[j].op \in SaveOps }) = 1
                  /\ Cardinality({ j \in 1..k : calls[j].op \in LoadOps }) = 1
        /\ calls[k].op \in Setters => CountOf("train", k) = 0
        /\ calls[k].op \in OutputAccessors =>
              /\ k > 1
              /\ calls[k - 1].op = "predict"
              /\ calls[k - 1].ok

C8_Witness ==
    /\ driver = "regression"
    /\ Succeeded
    /\ CountOf("predict", Len(calls)) >= 2
    /\ CountOf("getRegressionData", Len(calls)) >= 2
    /\ Called("getTestRMSError")

(* C9: both drivers terminate whatever the calls return: a return with     *)
(* EXIT_SUCCESS or EXIT_FAILURE is reached, the loop hands the sample      *)
(* indices 0, 1, .. to predict in increasing order, once each, and at most *)
(* as many as there are test samples.                                      *)
C9_Terminates ==
    /\ <>(Terminated /\ exitStatus \in {"EXIT_SUCCESS", "EXIT_FAILURE"})
    /\ [](/\ \A k \in 1..Len(visited) : visited[k] = k - 1
          /\ Len(visited) <= NumTestSamples
          /\ CountOf("predict", Len(calls)) = Len(visited))

C9_Witness ==
    /\ driver = "anbc"
    /\ Succeeded
    /\ visited = << 0, 1 >>

(* C10: in the regression driver, when predict fails for sample i the      *)
(* program ends with failure status and the results file holds exactly the *)
(* i lines of samples 0..i-1; when the failure comes before the loop the   *)
(* results file is never opened or written.                                *)
C10_PartialResults ==
    (driver = "regression" /\ Failed) =>
        IF LastCall.op = "predict"
        THEN /\ Len(file.lines) = i
             /\ \A k \in 1..Len(file.lines) : file.lines[k] = ResultLine(k - 1)
        ELSE /\ file.state = "unopened"
             /\ file.lines = << >>
             /\ ~Called("file.open")

====
